---- MODULE Spec2Model ----
(***************************************************************************)
(* Model of ci/checks/copyright.py: the copyright-header checker.          *)
(*                                                                         *)
(* A run of checkCopyright_main selects candidate files (git diff entries  *)
(* or files under the given directories), calls checkCopyright on each,    *)
(* which scans the lines, collects issues and optionally rewrites the file *)
(* on disk, and finally reports the accumulated issues.  The model runs    *)
(* the program twice in succession on the same file system.                *)
(*                                                                         *)
(* Text is modelled structurally.  A line is a record                      *)
(*   kind  "text" (matches neither pattern), "simple" (CheckSimple) or     *)
(*         "double" (CheckDouble);                                         *)
(*   y1,y2 the year groups as written: tuples of four decimal digits;      *)
(*   form  how the notice is spelled: "canon" is exactly                   *)
(*         "Copyright (c) Y[-Y], NVIDIA CORPORATION", "loose" any other    *)
(*         spelling the patterns accept (no "(c)", no comma, "Corporation")*)
(*         for a text line, a tag standing for its text;                   *)
(*   eol   the line terminator, "LF" or "CRLF".                            *)
(* A line holds at most one notice.  The host is POSIX (os.linesep = LF).  *)
(***************************************************************************)
EXTENDS Integers, Sequences, FiniteSets, TLC

\* ---------------------------------------------------------------- bounds
\* Number of consecutive calendar years the inputs range over.
NumYears == 3
\* Longest file (in lines) among the fully enumerated contents.
MaxLines == 2
\* Most positional directory arguments on the command line.
MaxDirs == 2

Years == {2020 + i : i \in 1..NumYears}

\* ------------------------------------------------------------ text model
\* "{:04d}" of a year below 10000, and the text a (\d{4}) group captures.
YearText(n) ==
    << (n \div 1000) % 10, (n \div 100) % 10, (n \div 10) % 10, n % 10 >>

\* int() of a captured (\d{4}) group.
YearInt(t) == t[1] * 1000 + t[2] * 100 + t[3] * 10 + t[4]

TextLine(eol) ==
    [kind |-> "text", y1 |-> <<>>, y2 |-> <<>>, form |-> "", eol |-> eol]

SimpleLine(y, form, eol) ==
    [kind |-> "simple", y1 |-> YearText(y), y2 |-> <<>>, form |-> form, eol |-> eol]

DoubleLine(s, e, form, eol) ==
    [kind |-> "double", y1 |-> YearText(s), y2 |-> YearText(e), form |-> form,
     eol |-> eol]

\* A line that exists only in the working tree (an unstaged edit).
UnstagedLine == [kind |-> "text", y1 |-> <<>>, y2 |-> <<>>, form |-> "unstaged",
                 eol |-> "LF"]

\* Whether CheckSimple.search(line) / CheckDouble.search(line) finds a match.
CheckSimple(line) == line.kind = "simple"

CheckDouble(line) == line.kind = "double"

\* The (start, end) pair, or <<>> for (None, None).
getCopyrightYears(line) ==
    IF CheckSimple(line) THEN << YearInt(line.y1), YearInt(line.y1) >>
    ELSE IF CheckDouble(line) THEN << YearInt(line.y1), YearInt(line.y2) >>
    ELSE <<>>

\* CheckSimple.sub(r"Copyright (c) \1-\1, NVIDIA CORPORATION", line)
SimpleToDouble(line) ==
    IF CheckSimple(line)
    THEN [line EXCEPT !.kind = "double", !.y2 = line.y1, !.form = "canon"]
    ELSE line

\* Mutant: the simple form is not first turned into the range form, so a
\* single-year notice is left as it was.
replaceCurrentYearDoubleOnly(line, start, end) ==
    IF CheckDouble(line)
    THEN [line EXCEPT !.y1 = YearText(start), !.y2 = YearText(end),
                      !.form = "canon"]
    ELSE line

replaceCurrentYear(line, start, end) ==
    LET res == SimpleToDouble(line)
    IN  IF CheckDouble(res)
        THEN [res EXCEPT !.y1 = YearText(start), !.y2 = YearText(end),
                         !.form = "canon"]
        ELSE res

\* ------------------------------------------------------------- issues
MsgInverted ==
    "First year after second year in the copyright header (manual fix required)"

MsgYear == "Current year not included in the copyright header"

MsgMissing ==
    "Copyright header missing or formatted incorrectly (manual fix required)"

\* An issue [path, lineNum, message, replacement]; repl is <<>> for None and
\* <<line>> for a replacement line.
Issue(path, lineNum, msg, repl) ==
    [path |-> path, lineNum |-> lineNum, msg |-> msg, repl |-> repl]

Fixable(e) == e.repl # <<>>

\* The issues one matched line appends (body of the for loop, lines 134-154).
LineIssues(path, lineNum, line, thisYear) ==
    LET yrs   == getCopyrightYears(line)
        start == yrs[1]
        end   == yrs[2]
        inv   == IF start > end
                 THEN << Issue(path, lineNum, MsgInverted, <<>>) >>
                 ELSE <<>>
        r1    == IF thisYear < start
                 THEN << replaceCurrentYear(line, thisYear, end) >>
                 ELSE <<>>
        r2    == IF thisYear > end
                 THEN << replaceCurrentYear(line, start, thisYear) >>
                 ELSE r1
        cur   == IF thisYear < start \/ thisYear > end
                 THEN << Issue(path, lineNum, MsgYear, r2) >>
                 ELSE <<>>
    IN  inv \o cur

\* Whether the line takes the else branch at line 155.
LineYearMatched(line, thisYear) ==
    LET yrs == getCopyrightYears(line)
    IN  yrs # <<>> /\ ~(thisYear < yrs[1] \/ thisYear > yrs[2])

\* State of the scan after the first n lines: errs, crFound, yearMatched.
RECURSIVE ScanLines(_, _, _, _)
ScanLines(path, lines, n, thisYear) ==
    IF n = 0
    THEN [errs |-> <<>>, crFound |-> FALSE, yearMatched |-> FALSE]
    ELSE LET prev == ScanLines(path, lines, n - 1, thisYear)
         IN  IF getCopyrightYears(lines[n]) = <<>>
             THEN prev
             ELSE [errs        |-> prev.errs \o LineIssues(path, n, lines[n], thisYear),
                   crFound     |-> TRUE,
                   yearMatched |-> prev.yearMatched
                                   \/ LineYearMatched(lines[n], thisYear)]

\* Mutant: a matching year does not discard the issues already collected.
CollectErrsNoSuppress(path, lines, thisYear) ==
    LET s       == ScanLines(path, lines, Len(lines), thisYear)
        missing == IF ~s.crFound
                   THEN << Issue(path, 0, MsgMissing, <<>>) >>
                   ELSE <<>>
    IN  s.errs \o missing

\* Mutant: the missing-header issue carries the running line counter.
CollectErrsMissingAtLineNum(path, lines, thisYear) ==
    LET s       == ScanLines(path, lines, Len(lines), thisYear)
        missing == IF ~s.crFound
                   THEN << Issue(path, Len(lines), MsgMissing, <<>>) >>
                   ELSE <<>>
    IN  IF s.yearMatched THEN <<>> ELSE s.errs \o missing

\* The errs list checkCopyright returns (lines 128-169).
CollectErrs(path, lines, thisYear) ==
    LET s       == ScanLines(path, lines, Len(lines), thisYear)
        missing == IF ~s.crFound
                   THEN << Issue(path, 0, MsgMissing, <<>>) >>
                   ELSE <<>>
    IN  IF s.yearMatched THEN <<>> ELSE s.errs \o missing

\* errs_update: the fixable issues, in order.
ErrsUpdate(errs) == SelectSeq(errs, Fixable)

\* lines after "for _, lineNum, __, replacement in errs_update:
\*                  lines[lineNum - 1] = replacement".
RECURSIVE PatchLines(_, _)
PatchLines(lines, upd) ==
    IF upd = <<>> THEN lines
    ELSE PatchLines([lines EXCEPT ![Head(upd).lineNum] = Head(upd).repl[1]],
                    Tail(upd))

\* open(f, encoding="utf-8").readlines(): universal newlines turn CRLF into LF.
ReadLines(content) == [i \in 1..Len(content) |-> [content[i] EXCEPT !.eol = "LF"]]

\* blob.data_stream.read().decode().splitlines(keepends=True): terminators kept.
SplitLinesKeepEnds(content) == content

\* ------------------------------------------------------------ file system
\* A path: directory components, file name, extension.
Path(dir, name, ext) == [dir |-> dir, name |-> name, ext |-> ext]

PathA      == Path(<<"cpp">>, "a.cu", "cu")
PathB      == Path(<<"python">>, "b.py", "py")
PathDoc    == Path(<<"cpp">>, "notes.md", "md")
PathExempt == Path(<<"cpp", "include", "cudf_test">>, "cxxopts.hpp", "hpp")
\* Staged in the index but absent from the working tree.
PathGone   == Path(<<"cpp">>, "gone.cu", "cu")
NoPath     == Path(<<>>, "", "")

\* The order in which os.walk lists the files of the tree.
WalkOrder == << PathA, PathDoc, PathExempt, PathB, PathGone >>

\* Directory arguments: two existing roots and one that does not exist.
Roots == { <<"cpp">>, <<"python">>, <<"nodir">> }

IsPrefix(s, t) == Len(s) <= Len(t) /\ SubSeq(t, 1, Len(s)) = s

IsSuffix(s, t) == Len(s) <= Len(t) /\ SubSeq(t, Len(t) - Len(s) + 1, Len(t)) = s

\* Some checker of FilesToCheck finds a match in the path.
FilesToCheck(p) ==
    \/ p.ext \in {"cmake", "cpp", "cu", "cuh", "h", "hpp", "sh", "pxd", "py", "pyx"}
    \/ p.name \in {"CMakeLists.txt", "CMakeLists_standalone.txt", "setup.cfg",
                   ".flake8.cython", "meta.yaml"}

\* Some pattern of ExemptFiles finds a match in the path.
ExemptFiles(p) ==
    IsSuffix(<<"cpp", "include", "cudf_test">>, p.dir) /\ p.name = "cxxopts.hpp"

\* os.path.isdir(d) on a file system holding the files fs.
IsDir(fs, d) == \E p \in DOMAIN fs : IsPrefix(d, p.dir)

\* open(path, "w") ... write: creates or truncates, then writes the lines.
WriteFile(fs, path, lines) == (path :> lines) @@ fs

\* All orders in which a set can be iterated.
Orders(S) == { s \in [1..Cardinality(S) -> S] : \A i, j \in 1..Cardinality(S) :
                                                    s[i] = s[j] => i = j }

VARIABLES
    disk,                 \* working tree: path -> lines
    index,                \* git index: path -> lines of the staged blob
    changed,              \* paths of the diff entries with b_path not None
    thisYear,             \* datetime.datetime.now().year
    update_current_year,  \* args.update_current_year
    git_modified_only,    \* args.git_modified_only
    dirs,                 \* positional directory arguments
    pc,                   \* position in checkCopyright_main
    modified,             \* the Diff objects modifiedFiles() returned
    dirIdx,               \* directories processed by the loop at line 243
    files,                \* candidate entries [src, path]
    fileIdx,              \* candidates processed by the loop at line 249
    errors,               \* accumulated issues
    out,                  \* standard output
    retVal,               \* exit status
    run,                  \* 1: first invocation, 2: second invocation
    log,                  \* history: reads, writes and issue prints of this run
    last,                 \* history: the latest checkCopyright call
    first,                \* history: result of the first invocation
    disk0                 \* history: working tree before the first invocation

vars == << disk, index, changed, thisYear, update_current_year, git_modified_only,
           dirs, pc, modified, dirIdx, files, fileIdx, errors, out, retVal, run, log, last,
           first, disk0 >>

env == << index, changed, thisYear, update_current_year, git_modified_only, dirs,
          disk0 >>

OutLine(kind, path, lineNum, msg, n) ==
    [kind |-> kind, path |-> path, lineNum |-> lineNum, msg |-> msg, n |-> n]

Event(op, i) == [op |-> op, i |-> i]

NoCall == [src |-> "", path |-> NoPath, before |-> <<>>, lines |-> <<>>,
           errs |-> <<>>, wrote |-> FALSE]

\* ---------------------------------------------------------- file selector
checkThisFile(path) ==
    /\ path \in DOMAIN disk
    /\ Len(disk[path]) # 0
    /\ ~ExemptFiles(path)
    /\ FilesToCheck(path)

\* modifiedFiles(), lines 66-89: the diff entries whose b_path is not None.
modifiedFiles ==
    /\ pc = "select"
    /\ git_modified_only
    /\ modified' = { [src |-> "diff", path |-> p] : p \in changed }
    /\ out' = out \o << OutLine("info", NoPath, 0, "Target branch", 0),
                        OutLine("info", NoPath, 0, "Upstream target branch", 0),
                        OutLine("info", NoPath, 0, "Merge base", 0),
                        OutLine("info", NoPath, 0, "Modified files", 0) >>
    /\ pc' = "filter"
    /\ UNCHANGED << disk, dirIdx, files, fileIdx, errors, retVal, run, log, last,
                    first >>
    /\ UNCHANGED env

getAllFilesUnderDir(root) ==
    LET keep(p) == p \in DOMAIN disk /\ IsPrefix(root, p.dir) /\ checkThisFile(p)
        kept    == SelectSeq(WalkOrder, keep)
    IN  [i \in 1..Len(kept) |-> [src |-> "disk", path |-> kept[i]]]

\* Lines 238-239: the set of modified files to check, iterated in some order.
SelectGit ==
    /\ pc = "filter"
    /\ files' \in Orders({ f \in modified : checkThisFile(f.path) })
    /\ out' = Append(out, OutLine("info", NoPath, 0, "Checking files", 0))
    /\ pc' = "check"
    /\ UNCHANGED << disk, modified, dirIdx, fileIdx, errors, retVal, run, log, last,
                    first >>
    /\ UNCHANGED env

\* Mutant: an argument that is not a directory is skipped, not refused.
SelectDirSkipMissing ==
    /\ pc = "select"
    /\ ~git_modified_only
    /\ dirIdx < Len(dirs)
    /\ LET d == dirs[dirIdx + 1]
       IN  files' = IF IsDir(disk, d) THEN files \o getAllFilesUnderDir(d) ELSE files
    /\ dirIdx' = dirIdx + 1
    /\ UNCHANGED << pc, retVal, disk, modified, fileIdx, errors, out, run, log, last,
                    first >>
    /\ UNCHANGED env

\* One iteration of the loop at lines 243-246.
SelectDir ==
    /\ pc = "select"
    /\ ~git_modified_only
    /\ dirIdx < Len(dirs)
    /\ LET d == dirs[dirIdx + 1]
       IN  IF ~IsDir(disk, d)
           THEN /\ pc' = "aborted"
                /\ retVal' = 1
                /\ UNCHANGED << files, dirIdx >>
           ELSE /\ files' = files \o getAllFilesUnderDir(d)
                /\ dirIdx' = dirIdx + 1
                /\ UNCHANGED << pc, retVal >>
    /\ UNCHANGED << disk, modified, fileIdx, errors, out, run, log, last, first >>
    /\ UNCHANGED env

\* The loop at line 243 is exhausted: line 248.
BeginCheck ==
    /\ pc = "select"
    /\ ~git_modified_only
    /\ dirIdx = Len(dirs)
    /\ pc' = "check"
    /\ UNCHANGED << disk, modified, dirIdx, files, fileIdx, errors, out, retVal,
                    run, log, last, first >>
    /\ UNCHANGED env

\* Mutant: fail-fast, the first file with an issue ends the scan.
CheckFileFailFast ==
    /\ pc = "check"
    /\ fileIdx < Len(files)
    /\ LET i       == fileIdx + 1
           f       == files[i]
           path    == f.path
           lines   == IF f.src = "diff"
                      THEN SplitLinesKeepEnds(index[path])
                      ELSE ReadLines(disk[path])
           errs    == CollectErrs(path, lines, thisYear)
           upd     == ErrsUpdate(errs)
           doWrite == update_current_year /\ Len(upd) > 0
       IN  /\ disk' = IF doWrite
                      THEN WriteFile(disk, path, PatchLines(lines, upd))
                      ELSE disk
           /\ out' = IF doWrite
                     THEN Append(out, OutLine("changing", path, 0,
                                              "Changing line(s)", Len(upd)))
                     ELSE out
           /\ errors' = errors \o errs
           /\ fileIdx' = IF errs # <<>> THEN Len(files) ELSE i
           /\ log' = log \o << Event("read", i) >>
                         \o (IF doWrite THEN << Event("write", i) >> ELSE <<>>)
           /\ last' = [src |-> f.src, path |-> path, before |-> disk[path],
                       lines |-> lines, errs |-> errs, wrote |-> doWrite]
    /\ UNCHANGED << pc, retVal, modified, dirIdx, files, run, first >>
    /\ UNCHANGED env

\* --------------------------------------------------------- checkCopyright
\* One iteration of the loop at lines 249-250: checkCopyright(f, ...) and the
\* accumulation of what it returns.
CheckFile ==
    /\ pc = "check"
    /\ fileIdx < Len(files)
    /\ LET i    == fileIdx + 1
           f    == files[i]
           path == f.path
       IN  IF f.src = "disk" /\ path \notin DOMAIN disk
           THEN \* open() raises: the run ends with a traceback
                /\ pc' = "aborted"
                /\ retVal' = 1
                /\ UNCHANGED << disk, fileIdx, errors, out, log, last >>
           ELSE LET lines   == IF f.src = "diff"
                               THEN SplitLinesKeepEnds(index[path])
                               ELSE ReadLines(disk[path])
                    errs    == CollectErrs(path, lines, thisYear)
                    upd     == ErrsUpdate(errs)
                    doWrite == update_current_year /\ Len(upd) > 0
                    before  == IF path \in DOMAIN disk THEN disk[path] ELSE <<>>
                IN  /\ disk' = IF doWrite
                               THEN WriteFile(disk, path, PatchLines(lines, upd))
                               ELSE disk
                    /\ out' = IF doWrite
                              THEN Append(out, OutLine("changing", path, 0,
                                                       "Changing line(s)", Len(upd)))
                              ELSE out
                    /\ errors' = errors \o errs
                    /\ fileIdx' = i
                    /\ log' = log \o << Event("read", i) >>
                                  \o (IF doWrite THEN << Event("write", i) >> ELSE <<>>)
                    /\ last' = [src |-> f.src, path |-> path, before |-> before,
                                lines |-> lines, errs |-> errs, wrote |-> doWrite]
                    /\ UNCHANGED << pc, retVal >>
    /\ UNCHANGED << modified, dirIdx, files, run, first >>
    /\ UNCHANGED env

\* ---------------------------------------------------------------- reporter
IssueLines(errs) ==
    [k \in 1..Len(errs) |->
        OutLine("issue", errs[k].path, errs[k].lineNum, errs[k].msg, 0)]

NotFixable(e) == ~Fixable(e)

\* Mutant: the hint counts every issue, fixable or not.
ReportCountsAll ==
    /\ pc = "check"
    /\ fileIdx = Len(files)
    /\ IF Len(errors) > 0
       THEN /\ out' = out
                          \o (IF Len(SelectSeq(errors, NotFixable)) > 0
                              THEN << OutLine("incomplete", NoPath, 0,
                                 "Copyright headers incomplete in some of the files!", 0) >>
                              ELSE <<>>)
                          \o IssueLines(errors)
                          \o << OutLine("blank", NoPath, 0, "", 0),
                                OutLine("hint", NoPath, 0,
                                  "You can run ... to fix {} of these errors.",
                                  Len(errors)) >>
            /\ log' = log \o [k \in 1..Len(errors) |-> Event("print", k)]
            /\ retVal' = 1
       ELSE /\ retVal' = 0
            /\ UNCHANGED << out, log >>
    /\ pc' = "done"
    /\ UNCHANGED << disk, modified, dirIdx, files, fileIdx, errors, run, last, first >>
    /\ UNCHANGED env

\* Lines 252-271.
Report ==
    /\ pc = "check"
    /\ fileIdx = Len(files)
    /\ LET n_fixable == Len(SelectSeq(errors, Fixable))
           incomplete == IF Len(SelectSeq(errors, NotFixable)) > 0
                         THEN << OutLine("incomplete", NoPath, 0,
                                 "Copyright headers incomplete in some of the files!", 0) >>
                         ELSE <<>>
           hint == IF n_fixable > 0
                   THEN << OutLine("hint", NoPath, 0,
                           "You can run ... to fix {} of these errors.", n_fixable) >>
                   ELSE <<>>
       IN  IF Len(errors) > 0
           THEN /\ out' = out \o incomplete \o IssueLines(errors)
                              \o << OutLine("blank", NoPath, 0, "", 0) >> \o hint
                /\ log' = log \o [k \in 1..Len(errors) |-> Event("print", k)]
                /\ retVal' = 1
           ELSE /\ retVal' = 0
                /\ UNCHANGED << out, log >>
    /\ pc' = "done"
    /\ UNCHANGED << disk, modified, dirIdx, files, fileIdx, errors, run, last, first >>
    /\ UNCHANGED env

\* The program is invoked again, at once, with the same arguments.
Rerun ==
    /\ pc = "done"
    /\ run = 1
    /\ run' = 2
    /\ first' = [errors |-> errors, disk |-> disk, retVal |-> retVal]
    /\ pc' = "select"
    /\ modified' = {}
    /\ dirIdx' = 0
    /\ files' = <<>>
    /\ fileIdx' = 0
    /\ errors' = <<>>
    /\ out' = <<>>
    /\ retVal' = 0
    /\ log' = <<>>
    /\ last' = NoCall
    /\ UNCHANGED disk
    /\ UNCHANGED env

\* ------------------------------------------------------------------ inputs
OldestYear == 2020 + 1

NewestYear == 2020 + NumYears

\* Lines of a fully enumerated file, in the canonical spelling with LF.
DeepLines ==
    {TextLine("LF")}
        \cup { SimpleLine(y, "canon", "LF") : y \in Years }
        \cup { DoubleLine(s, e, "canon", "LF") : s \in Years, e \in Years }

SeqsUpTo(S, n) == UNION { [1..k -> S] : k \in 0..n }

\* Every non-empty file of at most MaxLines such lines, in every order.
DeepContents == SeqsUpTo(DeepLines, MaxLines) \ {<<>>}

\* Representative files: empty, no header, a single year (also loosely spelled
\* and with CRLF terminators), an inverted range, a range over all the years.
WideContents ==
    { <<>>,
      << TextLine("LF") >>,
      << SimpleLine(OldestYear, "canon", "LF") >>,
      << SimpleLine(OldestYear, "loose", "LF"), TextLine("LF") >>,
      << TextLine("CRLF"), DoubleLine(OldestYear, OldestYear, "canon", "CRLF") >>,
      << DoubleLine(NewestYear, OldestYear, "canon", "LF") >>,
      << DoubleLine(OldestYear, NewestYear, "canon", "LF") >> }

DirSeqs == SeqsUpTo(Roots, MaxDirs)

\* Files present in every world; neither is a candidate.
BaseDisk == (PathDoc :> << TextLine("LF") >>) @@ (PathExempt :> << TextLine("LF") >>)

Dirty(content, dirty) == IF dirty THEN Append(content, UnstagedLine) ELSE content

\* One richly varied candidate, read from disk or from a diff entry.
DeepWorlds ==
    { [disk    |-> (PathA :> Dirty(c, m = "dirty")) @@ BaseDisk,
       index   |-> (PathA :> c),
       changed |-> {PathA},
       git     |-> (m # "dirs"),
       dirs    |-> IF m = "dirs" THEN << <<"cpp">> >> ELSE <<>>]
      : c \in DeepContents, m \in {"dirs", "staged", "dirty"} }

\* Two candidates with representative contents, any command line.
WideWorlds ==
    { [disk    |-> (PathA :> Dirty(ca, m.dirty)) @@ (PathB :> Dirty(cb, m.dirty))
                   @@ BaseDisk,
       index   |-> (PathA :> ca) @@ (PathB :> cb) @@ BaseDisk
                   @@ (PathGone :> << TextLine("LF") >>),
       changed |-> {PathA, PathB, PathDoc, PathExempt, PathGone},
       git     |-> m.git,
       dirs    |-> m.dirs]
      : ca \in WideContents, cb \in WideContents,
        m \in { [git |-> FALSE, dirty |-> FALSE, dirs |-> ds] : ds \in DirSeqs }
              \cup { [git |-> TRUE, dirty |-> d, dirs |-> <<>>] : d \in BOOLEAN } }

Init ==
    /\ \E w \in DeepWorlds \cup WideWorlds :
          /\ disk = w.disk
          /\ disk0 = w.disk
          /\ index = w.index
          /\ changed = w.changed
          /\ git_modified_only = w.git
          /\ dirs = w.dirs
          /\ first = [errors |-> <<>>, disk |-> w.disk, retVal |-> 0]
    /\ thisYear \in Years
    /\ update_current_year \in BOOLEAN
    /\ pc = "select"
    /\ modified = {}
    /\ dirIdx = 0
    /\ files = <<>>
    /\ fileIdx = 0
    /\ errors = <<>>
    /\ out = <<>>
    /\ retVal = 0
    /\ run = 1
    /\ log = <<>>
    /\ last = NoCall

Next ==
    \/ modifiedFiles
    \/ SelectGit
    \/ SelectDir
    \/ BeginCheck
    \/ CheckFile
    \/ Report
    \/ Rerun

Spec == Init /\ [][Next]_vars

\* ================================================================ claims
Matched(line) == getCopyrightYears(line) # <<>>

StartOf(line) == getCopyrightYears(line)[1]

EndOf(line) == getCopyrightYears(line)[2]

\* The line's range contains the current year.
Current(line) == Matched(line) /\ StartOf(line) <= thisYear /\ thisYear <= EndOf(line)

Inverted(line) == Matched(line) /\ StartOf(line) > EndOf(line)

MatchedAt(lines) == { i \in 1..Len(lines) : Matched(lines[i]) }

\* A checkCopyright call has returned and nothing has happened since.
Called == last # NoCall

\* The file the latest call checked is on disk as it was before the call.
LastFileUntouched ==
    /\ ~last.wrote
    /\ last.path \in DOMAIN disk
    /\ disk[last.path] = last.before

\* At least one matched line, every one with start <= end and none current.
AllStale(lines) ==
    /\ MatchedAt(lines) # {}
    /\ \A i \in MatchedAt(lines) : ~Inverted(lines[i]) /\ ~Current(lines[i])

FixableCount(errs) == Cardinality({ k \in 1..Len(errs) : errs[k].repl # <<>> })

\* C1: a file with at least one line whose range contains the current year
\* has no issue, whatever its other lines and their order, and is not
\* rewritten.
TheoremC1 ==
    (Called /\ \E i \in 1..Len(last.lines) : Current(last.lines[i]))
        => /\ last.errs = <<>>
           /\ LastFileUntouched

\* A valid line after an inverted one, with --update-current-year.
WitnessC1 ==
    /\ Called
    /\ update_current_year
    /\ Len(last.lines) = 2
    /\ Inverted(last.lines[1])
    /\ Current(last.lines[2])

\* C2: a file whose only matched line has start > end yields exactly one
\* issue, the inverted-range issue, and no issue with replacement text.
CounterexampleC2 ==
    (Called /\ Cardinality(MatchedAt(last.lines)) = 1
            /\ \A i \in MatchedAt(last.lines) : Inverted(last.lines[i]))
        => /\ Len(last.errs) = 1
           /\ last.errs[1].msg = MsgInverted
           /\ FixableCount(last.errs) = 0

\* C3: the replacement of a year-not-current issue has the range
\* (start, thisYear) whenever thisYear > end and (thisYear, end) whenever
\* thisYear < start; a single year Y < thisYear becomes Y-thisYear in the
\* canonical spelling.
CounterexampleC3 ==
    Called =>
        \A k \in 1..Len(last.errs) :
            LET e    == last.errs[k]
                line == last.lines[e.lineNum]
            IN  e.msg = MsgYear =>
                    /\ Len(e.repl) = 1
                    /\ thisYear > EndOf(line)
                         => getCopyrightYears(e.repl[1]) = << StartOf(line), thisYear >>
                    /\ thisYear < StartOf(line)
                         => getCopyrightYears(e.repl[1]) = << thisYear, EndOf(line) >>
                    /\ (line.kind = "simple" /\ StartOf(line) < thisYear)
                         => e.repl[1] = DoubleLine(StartOf(line), thisYear, "canon",
                                                   line.eol)

\* C4: a file with no matching line yields exactly the missing-header issue,
\* at line 0 and without replacement, and is not rewritten.
TheoremC4 ==
    (Called /\ MatchedAt(last.lines) = {})
        => /\ last.errs = << Issue(last.path, 0, MsgMissing, <<>>) >>
           /\ LastFileUntouched

\* A file of two text lines, checked with --update-current-year.
WitnessC4 ==
    /\ Called
    /\ update_current_year
    /\ Len(last.lines) = 2
    /\ MatchedAt(last.lines) = {}

\* C5 (one step): the working tree keeps its set of files; a file changes only
\* under --update-current-year, when it has a fixable issue, and only at the
\* line numbers of its fixable issues; a file without fixable issue, or any
\* file without the flag, is not written.
FrameC5 ==
    /\ DOMAIN disk' = DOMAIN disk
    /\ \A p \in DOMAIN disk :
          disk'[p] # disk[p] =>
              /\ update_current_year
              /\ last'.path = p
              /\ FixableCount(last'.errs) > 0
              /\ Len(disk'[p]) = Len(disk[p])
              /\ \A i \in 1..Len(disk[p]) :
                    disk'[p][i] # disk[p][i] =>
                        \E k \in 1..Len(last'.errs) :
                            /\ last'.errs[k].repl # <<>>
                            /\ last'.errs[k].lineNum = i
    /\ (last' # last /\ last'.wrote)
          => update_current_year /\ FixableCount(last'.errs) > 0

\* C5: the frame of the patch step holds of every step, for both file sources.
CounterexampleC5 == [][FrameC5]_vars

\* C6: of two successive runs with --update-current-year, the second leaves
\* every file as the first run left it and ends having reported no issue.
CounterexampleC6 ==
    (run = 2 /\ update_current_year)
        => /\ disk = first.disk
           /\ pc = "done" => errors = <<>>

\* C7: in directory mode, when some directory argument is not a directory,
\* the run never gets to check a file: nothing is read, written or printed,
\* and the run, once it ends, has failed.
TheoremC7 ==
    (~git_modified_only /\ \E k \in 1..Len(dirs) : ~IsDir(disk0, dirs[k]))
        => /\ pc \in {"select", "aborted"}
           /\ ~Called
           /\ fileIdx = 0
           /\ log = <<>>
           /\ errors = <<>>
           /\ out = <<>>
           /\ disk = disk0
           /\ pc = "aborted" => retVal # 0

\* The run aborted after a valid directory had contributed candidates.
WitnessC7 ==
    /\ pc = "aborted"
    /\ update_current_year
    /\ Len(files) > 0
    /\ \E k \in 1..Len(files) : CollectErrs(files[k].path, disk[files[k].path],
                                             thisYear) # <<>>

OutOfKind(kind) == SelectSeq(out, LAMBDA l : l.kind = kind)

\* The issues of the candidates in order, when no file is rewritten.
RECURSIVE ErrsOfFiles(_)
ErrsOfFiles(fs) ==
    IF fs = <<>> THEN <<>>
    ELSE LET f     == Head(fs)
             lines == IF f.src = "diff" THEN index[f.path] ELSE ReadLines(disk[f.path])
         IN  CollectErrs(f.path, lines, thisYear) \o ErrsOfFiles(Tail(fs))

\* C8: at the end of a run the exit status is 1 exactly when issues were
\* accumulated and 0 otherwise, one line is printed per accumulated issue, and
\* the hint appears exactly when some issue is fixable, with their count.
TheoremC8 ==
    pc = "done" =>
        /\ retVal = (IF errors # <<>> THEN 1 ELSE 0)
        /\ OutOfKind("issue")
             = [k \in 1..Len(errors) |->
                   OutLine("issue", errors[k].path, errors[k].lineNum, errors[k].msg, 0)]
        /\ OutOfKind("hint")
             = (IF FixableCount(errors) > 0
                THEN << OutLine("hint", NoPath, 0,
                                "You can run ... to fix {} of these errors.",
                                FixableCount(errors)) >>
                ELSE <<>>)
        /\ ~update_current_year => errors = ErrsOfFiles(files)

\* A finished run with both a fixable and a non-fixable issue.
WitnessC8 ==
    /\ pc = "done"
    /\ retVal = 1
    /\ FixableCount(errors) > 0
    /\ FixableCount(errors) < Len(errors)

ReadsOfLog == SelectSeq(log, LAMBDA ev : ev.op = "read")

TheoremC10 ==
    /\ (run = 1 /\ update_current_year /\ Called /\ last.src = "disk"
             /\ AllStale(last.lines))
          => /\ last.wrote
             /\ \A i \in MatchedAt(last.lines) : Current(disk[last.path][i])
             /\ Len(last.errs) = Cardinality(MatchedAt(last.lines))
             /\ \A k \in 1..Len(last.errs) :
                   last.errs[k].msg = MsgYear /\ last.errs[k].repl # <<>>
             /\ pc = "done" => retVal = 1
    /\ (run = 1 /\ update_current_year /\ pc = "done"
             /\ \E k \in 1..Len(files) :
                   files[k].src = "disk" /\ AllStale(disk0[files[k].path]))
          => retVal = 1
    /\ (run = 2 /\ update_current_year /\ Called /\ last.src = "disk"
             /\ AllStale(disk0[last.path]))
          => /\ last.errs = <<>>
             /\ LastFileUntouched
             /\ disk[last.path] = first.disk[last.path]

\* The second run has just checked a file that was stale before the first.
WitnessC10 ==
    /\ run = 2
    /\ update_current_year
    /\ Called
    /\ last.src = "disk"
    /\ AllStale(disk0[last.path])
    /\ first.retVal = 1
    /\ disk0[last.path][1].kind = "simple"

====
